---- MODULE Spec2Model ----
(***************************************************************************)
(* EnigmaIOTRingBuffer<Telement>, the gateway's input message queue: a     *)
(* ring of maxSize slots with a secondary overflow array, its producer     *)
(* (the radio receive callback) and its consumer (the gateway main loop).  *)
(*                                                                         *)
(* Frames are identified by the order in which they are pushed: the k-th   *)
(* pushed frame is the value k.                                            *)
(*                                                                         *)
(* Three specifications share the state:                                   *)
(*   Spec      any sequence of whole push / pop / front calls              *)
(*   SpecLoop  producer pushes interleaved, call by call, with the main    *)
(*             loop's front-then-pop (SpecLive adds the loop's fairness)   *)
(*   SpecStmt  push and pop interleaved statement by statement             *)
(***************************************************************************)
EXTENDS Integers, Sequences, FiniteSets, TLC

\* ---- bounds of the model ----
MaxRange == 2
MaxPush == 5
\* the last millisecond the clock reaches
MaxTime == 8
\* the number of addHACall calls
MaxCalls == 3
\* the range EnigmaIOTRingBufferVector is constructed with, and the number
\* of pushes into it
VecRange == 2
MaxVecPush == 5
\* the frames the gateway receives and the last tick of the gateway's clock
MaxGwFrames == 4
MaxGwTime == 2

\* ---- program constants ----
MAX_OVERFLOW_BUFFER_SIZE == 15
NotAllocated == MAX_OVERFLOW_BUFFER_SIZE + 1

\* the discovery delays, in clock ticks: the first one is the longer, and a
\* sleepy node waits twice as long
HA_FIRST_DISCOVERY_DELAY == 2
HA_NEXT_DISCOVERY_DELAY == 1
HA_FIRST_DISCOVERY_DELAY_SLEEPY == 2 * HA_FIRST_DISCOVERY_DELAY
HA_NEXT_DISCOVERY_DELAY_SLEEPY == 2 * HA_NEXT_DISCOVERY_DELAY
\* an empty std::function: haDiscovery_call_t hacall = 0
NullCall == 0

\* a slot that was never written (new Telement[n] leaves it uninitialised)
NoItem == 0
\* bytes found outside the overflow array
Garbage == -1

VARIABLES
    maxSize,
    numElements,
    readIndex,
    writeIndex,
    buffer,
    overflowBuffer,
    overflow_index,
    deleteOverflow,
    heap,
    faulted,
    nPushed,
    ret,
    handed,
    absorbed,
    discarded,
    consumed,
    held,
    consumerIdle,
    cpc,
    message,
    delivered,
    ppc,
    wasFull,
    qpc,
    wasEmpty,
    haCallQueue,
    doSendHAdiscovery,
    sendHAtime,
    sendHAdelay,
    sendData,
    sleepy,
    clock,
    haAdded,
    haExecuted,
    haSince,
    haMark,
    sendRet,
    vecBuffer,
    vecPushed,
    vecRet,
    nodes,
    gwNow,
    gwFrames,
    gwEvent,
    rxFrame,
    rxPrev

ringVars == <<maxSize, numElements, readIndex, writeIndex, buffer>>
ovfVars == <<overflowBuffer, overflow_index, deleteOverflow, heap>>
ghostVars == <<handed, absorbed, discarded, consumed, held>>
loopVars == <<cpc, message, delivered>>
stmtVars == <<ppc, wasFull, qpc, wasEmpty>>
\* the input queue with its producer and consumer
queueVars == <<maxSize, numElements, readIndex, writeIndex, buffer,
               overflowBuffer, overflow_index, deleteOverflow, heap, faulted,
               nPushed, ret, handed, absorbed, discarded, consumed, held,
               consumerIdle, cpc, message, delivered, ppc, wasFull, qpc, wasEmpty>>
\* EnigmaIOTjsonController
haVars == <<haCallQueue, doSendHAdiscovery, sendHAtime, sendHAdelay>>
ctlVars == <<haVars, sendData, sleepy, clock, haAdded, haExecuted, haSince,
             haMark, sendRet>>
\* EnigmaIOTRingBufferVector
vecVars == <<vecBuffer, vecPushed, vecRet>>
\* the gateway's node table and dispatcher
gwVars == <<nodes, gwNow, gwFrames, gwEvent>>
\* the two frames manageMessage classified last
tagVars == <<rxFrame, rxPrev>>
extVars == <<ctlVars, vecVars, gwVars, tagVars>>
vars == <<queueVars, extVars>>

\* uint8_t arithmetic
Inc8(x) == (x + 1) % 256
Dec8Stuck(x) == x
Dec8(x) == (x + 255) % 256

\* the value a call returned: push and pop a bool (ok), front a pointer
\* (kind: "null", a slot of the main ring, a slot of the overflow array,
\* an address outside the overflow array)
Ret(op, ok, kind, idx, val) ==
    [op |-> op, ok |-> ok, kind |-> kind, idx |-> idx, val |-> val]
NoRet == Ret("none", FALSE, "none", 0, NoItem)

size == numElements
isFull == numElements = maxSize
empty == numElements = 0

\* if (x >= maxSize) x %= maxSize
WrapNever(x) == x
Wrap(x) == IF x >= maxSize THEN x % maxSize ELSE x

\* the main ring, oldest element first
RingSeq == [i \in 1..numElements |-> buffer[(readIndex + i - 1) % maxSize]]
RingSet == {RingSeq[i] : i \in 1..numElements}
\* the entries the overflow array holds: slots 0 .. overflow_index - 1
OverflowCount(oi) == IF oi <= MAX_OVERFLOW_BUFFER_SIZE THEN oi ELSE 0
OverflowSet == {overflowBuffer[i] : i \in 0..(OverflowCount(overflow_index) - 1)}

\* the value a send function returned, with the arguments it was called on:
\* cb is whether sendData held a callback, outs what that callback answers
\* to its first and to its second invocation, calls how often it was invoked
SendRet(fn, data, len, cb, outs, calls, result) ==
    [fn |-> fn, data |-> data, len |-> len, cb |-> cb, outs |-> outs,
     calls |-> calls, result |-> result]
NoSend == SendRet("none", FALSE, 0, FALSE, <<FALSE, FALSE>>, 0, FALSE)

\* the controller after construction: sendData is an empty std::function,
\* sendHAtime has no initialiser (it is written before it is first read)
InitController ==
    /\ haCallQueue = <<>>
    /\ doSendHAdiscovery = FALSE
    /\ sendHAtime = 0
    /\ sendHAdelay = HA_FIRST_DISCOVERY_DELAY
    /\ sendData = FALSE
    /\ sleepy \in BOOLEAN
    /\ clock = 0
    /\ haAdded = 0
    /\ haExecuted = <<>>
    /\ haSince = -1
    /\ haMark = 0
    /\ sendRet = NoSend

\* EnigmaIOTRingBufferVector (range): an empty std::vector
InitVector ==
    /\ vecBuffer = <<>>
    /\ vecPushed = 0
    /\ vecRet = NoRet

InitQueue ==
    /\ maxSize \in 1..MaxRange
    /\ numElements = 0
    /\ readIndex = 0
    /\ writeIndex = 0
    /\ buffer = [i \in 0..(maxSize - 1) |-> NoItem]
    /\ overflowBuffer = [i \in 0..(MAX_OVERFLOW_BUFFER_SIZE - 1) |-> NoItem]
    /\ overflow_index = NotAllocated
    /\ deleteOverflow = FALSE
    /\ heap = "none"
    /\ faulted = FALSE
    /\ nPushed = 0
    /\ ret = NoRet
    /\ handed = {}
    /\ absorbed = {}
    /\ discarded = {}
    /\ consumed = {}
    /\ held = {}
    /\ consumerIdle = TRUE
    /\ cpc = "front"
    /\ message = NoRet
    /\ delivered = <<>>
    /\ ppc = "idle"
    /\ wasFull = FALSE
    /\ qpc = "idle"
    /\ wasEmpty = FALSE

\* ---- the gateway's sessions ----
\* the peers' MAC addresses
MACs == {1, 2}
\* the names a peer may ask for; NoName is the empty name
NoName == 0
Names == {NoName, 1, 2}
\* the replay window and the life of a session key, in clock ticks
W == 256
MAX_KEY_VALIDITY == 1
\* counter rejects in a row that invalidate a session
MaxRejects == 3
\* result codes of NODE_NAME_RESULT
NameOk == 0
NameTakenCode == -1
EmptyNameCode == -3

\* a record of the node table
NodeRec(st, kid, ctr, act, nm, rej) ==
    [status |-> st, key_id |-> kid, last_accepted |-> ctr,
     last_activity |-> act, name |-> nm, rejects |-> rej]
\* a MAC the gateway has not heard of
FreshNode == NodeRec("Unregistered", 0, 0, 0, NoName, 0)
\* records of a long-running gateway: a peer on its 255th key whose session
\* was invalidated, and a session that has accepted 65500 frames
SeedNodes ==
    {FreshNode,
     NodeRec("Unregistered", 255, 0, 0, NoName, 0),
     NodeRec("Registered", 1, 65500, 0, NoName, 0)}

\* what the dispatcher did with the last frame: the frame, the reply sent
\* and whether the data callback ran (with which lost count)
GwEvent(type, mac, kid, ctr, nm, reply, code, dlv, lost) ==
    [type |-> type, mac |-> mac, kid |-> kid, ctr |-> ctr, name |-> nm,
     reply |-> reply, code |-> code, delivered |-> dlv, lost |-> lost]
NoEvent == GwEvent("none", 0, 0, 0, NoName, "none", 0, FALSE, 0)

InitGateway ==
    /\ nodes = [m \in MACs |-> FreshNode]
    /\ gwNow = 0
    /\ gwFrames = 0
    /\ gwEvent = NoEvent

\* no frame was classified yet
NoFrame == [tag |-> -1, method |-> "none"]

InitTag ==
    /\ rxFrame = NoFrame
    /\ rxPrev = NoFrame

Init ==
    /\ InitTag
    /\ InitController
    /\ InitVector
    /\ InitGateway
    /\ InitQueue

\* a gateway that has been running: the first peer's record is any seed
\* (the other classes are held in one state)
InitGw ==
    /\ InitTag
    /\ InitController
    /\ sleepy = FALSE
    /\ InitVector
    /\ InitQueue
    /\ maxSize = 1
    /\ nodes \in {t \in [MACs -> SeedNodes] :
                      \A m \in MACs \ {1} : t[m] = FreshNode}
    /\ gwNow = 0
    /\ gwFrames = 0
    /\ gwEvent = NoEvent

(***************************************************************************)
(* The ring class                                                          *)
(***************************************************************************)

\* shouldDeleteOverflowBuffer: the overflow allocation after the call
shouldDeleteOverflowBuffer(del, h) == IF del THEN "deleted" ELSE h

\* first branch of pushInOverFlowBuffer: the array is (re)allocated
OverflowAllocates(oi) == oi = MAX_OVERFLOW_BUFFER_SIZE + 1
\* second branch: the array is full, the victim is discarded
\* (OverflowDiscardsLate: the test is off by one)
OverflowDiscardsLate(oi) == ~OverflowAllocates(oi) /\ oi > MAX_OVERFLOW_BUFFER_SIZE
OverflowDiscards(oi) == ~OverflowAllocates(oi) /\ oi > MAX_OVERFLOW_BUFFER_SIZE - 1

\* pushInOverFlowBuffer: the overflow fields after the call
pushInOverFlowBuffer ==
    LET h == shouldDeleteOverflowBuffer(deleteOverflow, heap) IN
    IF OverflowAllocates(overflow_index)
    THEN [ob |-> [i \in 0..(MAX_OVERFLOW_BUFFER_SIZE - 1) |-> NoItem],
          oi |-> 0, del |-> FALSE, h |-> "live"]
    ELSE IF OverflowDiscards(overflow_index)
    THEN [ob |-> overflowBuffer, oi |-> overflow_index, del |-> FALSE, h |-> h]
    ELSE [ob |-> [overflowBuffer EXCEPT ![overflow_index] = buffer[writeIndex]],
          oi |-> Inc8(overflow_index), del |-> FALSE, h |-> h]

\* if (wasFull && writeIndex == readIndex) pushInOverFlowBuffer ();
PushOverflowStep(wf) ==
    LET call == wf /\ writeIndex = readIndex
        victim == buffer[writeIndex]
        o == pushInOverFlowBuffer
    IN
    /\ overflowBuffer' = IF call THEN o.ob ELSE overflowBuffer
    /\ overflow_index' = IF call THEN o.oi ELSE overflow_index
    /\ deleteOverflow' = IF call THEN o.del ELSE deleteOverflow
    /\ heap' = IF call THEN o.h ELSE heap
    /\ handed' = IF call THEN handed \cup {victim} ELSE handed
    /\ absorbed' = IF call /\ ~OverflowAllocates(overflow_index)
                           /\ ~OverflowDiscards(overflow_index)
                   THEN absorbed \cup {victim} ELSE absorbed
    /\ discarded' = IF call /\ OverflowDiscards(overflow_index)
                    THEN discarded \cup {victim} ELSE discarded

\* if (wasFull) readIndex++ (wrapped) else numElements++
\* (PushReadIndexStuck: the overwritten slot is not skipped)
PushReadIndexStuck(wf, r) == r
PushReadIndex(wf, r) == IF wf THEN Wrap(r + 1) ELSE r
PushNumElements(wf, n) == IF wf THEN n ELSE n + 1

\* bool push (Telement* item), as one step
push ==
    /\ ~faulted
    /\ nPushed < MaxPush
    /\ LET item == nPushed + 1
           wf == isFull
       IN
       /\ PushOverflowStep(wf)
       /\ buffer' = [buffer EXCEPT ![writeIndex] = item]
       /\ writeIndex' = Wrap(writeIndex + 1)
       /\ readIndex' = PushReadIndex(wf, readIndex)
       /\ numElements' = PushNumElements(wf, numElements)
       /\ nPushed' = item
       /\ ret' = Ret("push", ~wf, "none", 0, item)
    /\ UNCHANGED <<maxSize, faulted, consumed>>
    /\ held' = RingSet' \cup OverflowSet'
    /\ UNCHANGED extVars

\* readIndex after pop
\* (PopReadIndexAlways: the emptiness test is missing)
PopReadIndexAlways(we, r) == Wrap(r + 1)
PopReadIndex(we, r) == IF ~we THEN Wrap(r + 1) ELSE r
\* numElements after pop
\* (PopNumElementsKept: the element count is not decremented)
PopNumElementsKept(we, n) == n
PopNumElements(we, n) == IF ~we THEN n - 1 ELSE n

\* bool pop (), as one step
pop ==
    /\ ~faulted
    /\ LET we == empty IN
       /\ readIndex' = PopReadIndex(we, readIndex)
       /\ numElements' = PopNumElements(we, numElements)
       /\ consumed' = IF ~we THEN consumed \cup {buffer[readIndex]} ELSE consumed
       /\ ret' = Ret("pop", ~we, "none", 0, NoItem)
    /\ UNCHANGED <<maxSize, writeIndex, buffer, ovfVars, faulted, nPushed,
                   handed, absorbed, discarded, held>>
    /\ UNCHANGED extVars

\* return &(buffer[readIndex])
\* (FrontElementNewest: the newest element is returned instead of the oldest)
FrontElementNewest(b, r) == b[(r + numElements - 1) % maxSize]
FrontElement(b, r) == b[r]

\* Telement* front (), with frontOverflowBuffer, as one step.  An index that
\* left the array (overflow_index was 0 and wrapped to 255) yields an address
\* outside the allocation: the caller reads garbage there, or faults.
front ==
    /\ ~faulted
    /\ heap' = shouldDeleteOverflowBuffer(deleteOverflow, heap)
    /\ IF ~empty
       THEN /\ ret' = Ret("front", FALSE, "ring", readIndex, FrontElement(buffer, readIndex))
            /\ deleteOverflow' = FALSE
            /\ UNCHANGED <<overflow_index, faulted>>
       ELSE IF overflow_index = MAX_OVERFLOW_BUFFER_SIZE + 1
       THEN /\ ret' = Ret("front", FALSE, "null", 0, NoItem)
            /\ deleteOverflow' = FALSE
            /\ UNCHANGED <<overflow_index, faulted>>
       ELSE IF overflow_index - 1 = 0
       THEN /\ overflow_index' = MAX_OVERFLOW_BUFFER_SIZE + 1
            /\ deleteOverflow' = TRUE
            /\ ret' = Ret("front", FALSE, "ovf", 0, overflowBuffer[0])
            /\ UNCHANGED faulted
       ELSE LET k == Dec8(overflow_index) IN
            /\ overflow_index' = k
            /\ deleteOverflow' = FALSE
            /\ IF k < MAX_OVERFLOW_BUFFER_SIZE
               THEN /\ ret' = Ret("front", FALSE, "ovf", k, overflowBuffer[k])
                    /\ UNCHANGED faulted
               ELSE \/ /\ ret' = Ret("front", FALSE, "oob", k, Garbage)
                       /\ UNCHANGED faulted
                    \/ /\ ret' = Ret("front", FALSE, "fault", k, Garbage)
                       /\ faulted' = TRUE
    /\ UNCHANGED <<ringVars, overflowBuffer, nPushed, ghostVars>>
    /\ UNCHANGED extVars

(***************************************************************************)
(* Spec: a client that calls push, pop and front in any order              *)
(***************************************************************************)
CallPush == push /\ UNCHANGED <<consumerIdle, loopVars, stmtVars>>
CallPop == pop /\ consumerIdle' = FALSE /\ UNCHANGED <<loopVars, stmtVars>>
CallFront == front /\ consumerIdle' = FALSE /\ UNCHANGED <<loopVars, stmtVars>>

Next == CallPush \/ CallPop \/ CallFront

Spec == Init /\ [][Next]_vars

(***************************************************************************)
(* Properties of whole calls made in any order (Spec)                      *)
(***************************************************************************)
PushStep == nPushed' = nPushed + 1
PopStep == ret'.op = "pop"
FrontStep == ret'.op = "front"

Min(a, b) == IF a < b THEN a ELSE b
\* the last k of the first n pushed frames, in push order
LastPushed(n, k) == [i \in 1..k |-> n - k + i]

\* C1: in every reachable state 0 <= size() <= maxSize and overflow_index is
\* the sentinel 16 or a value in 0..15.
C1_SizeAndOverflowBounded ==
    /\ size \in 0..maxSize
    /\ \/ overflow_index = NotAllocated
       \/ overflow_index \in 0..MAX_OVERFLOW_BUFFER_SIZE

\* C2: a push on a full ring while the overflow area holds fewer than 15
\* entries, or is not allocated yet, leaves the overwritten oldest element in
\* the overflow area.
C2_VictimCopied ==
    [][(PushStep /\ isFull
          /\ (overflow_index < MAX_OVERFLOW_BUFFER_SIZE \/ overflow_index = NotAllocated))
        => buffer[readIndex] \in OverflowSet']_vars

\* C3: while the consumer is idle every pushed frame is in the main ring, in
\* the overflow area, or counted as dropped.
C3_PushesAccounted ==
    consumerIdle =>
        nPushed = numElements + OverflowCount(overflow_index) + Cardinality(discarded)

\* C4: push returns true iff the ring was not full; the item becomes the
\* newest element; a ring that was not full grows by one and loses nothing, a
\* full ring keeps its size and loses exactly its oldest element; with no pop
\* so far the ring holds the last min(N, maxSize) pushed items in push order.
C4_PushContract ==
    [][PushStep =>
        /\ ret'.ok = (numElements < maxSize)
        /\ RingSeq'[numElements'] = nPushed'
        /\ numElements < maxSize =>
              /\ numElements' = numElements + 1
              /\ RingSeq' = Append(RingSeq, nPushed')
        /\ numElements = maxSize =>
              /\ numElements' = maxSize
              /\ RingSeq' = Append(Tail(RingSeq), nPushed')
        /\ consumed' = {} =>
              RingSeq' = LastPushed(nPushed', Min(nPushed', maxSize))]_vars

\* a push on a full ring has happened, with no pop before it
C4_Witness ==
    /\ ret.op = "push" /\ ~ret.ok
    /\ consumed = {}
    /\ nPushed > maxSize
    /\ maxSize > 1

\* C5: pop returns false iff the ring was empty and then changes neither the
\* indices, the size nor the overflow area; otherwise it returns true and
\* removes exactly the oldest element, the one front designates, leaving
\* writeIndex and the other elements alone.
C5_PopContract ==
    [][PopStep =>
        /\ ret'.ok = ~empty
        /\ empty => UNCHANGED <<readIndex, writeIndex, numElements, ovfVars>>
        /\ ~empty =>
              /\ FrontElement(buffer, readIndex) = Head(RingSeq)
              /\ RingSeq' = Tail(RingSeq)
              /\ numElements' = numElements - 1
              /\ writeIndex' = writeIndex]_vars

\* pop has been refused on a ring that earlier pops had emptied
C5_Witness ==
    /\ ret.op = "pop" /\ ~ret.ok
    /\ consumed # {}
    /\ maxSize > 1

addInputMsgQueue == push /\ UNCHANGED <<consumerIdle, loopVars, stmtVars>>

getInputMsgQueue ==
    /\ cpc = "front"
    /\ front
    /\ message' = ret'
    /\ delivered' = IF ret'.kind \in {"ring", "ovf"}
                    THEN Append(delivered, ret'.val) ELSE delivered
    /\ cpc' = IF ret'.kind \in {"null", "fault"} THEN "front" ELSE "pop"
    /\ consumerIdle' = FALSE
    /\ UNCHANGED stmtVars

popInputMsgQueue ==
    /\ cpc = "pop"
    /\ pop
    /\ cpc' = "front"
    /\ consumerIdle' = FALSE
    /\ UNCHANGED <<message, delivered, stmtVars>>

NextLoop == addInputMsgQueue \/ getInputMsgQueue \/ popInputMsgQueue

SpecLoop == Init /\ [][NextLoop]_vars

\* the main loop keeps running
SpecLive == SpecLoop /\ WF_vars(getInputMsgQueue) /\ WF_vars(popInputMsgQueue)

\* how often frame f was handed on
Count(seq, f) == Cardinality({i \in 1..Len(seq) : seq[i] = f})
NoDuplicates(seq) == \A i, j \in 1..Len(seq) : seq[i] = seq[j] => i = j

\* C7: as long as no push was made on a full ring, the frames taken by the
\* front/pop pairs are exactly the pushed frames that are no longer in the
\* ring, each once, in push order.
C7_Fifo ==
    handed = {} =>
        LET k == nPushed - numElements + (IF cpc = "pop" THEN 1 ELSE 0) IN
        /\ delivered = LastPushed(k, k)
        /\ consumed = {delivered[i] : i \in 1..(nPushed - numElements)}

\* every pushed frame has been taken, in a ring whose indices have wrapped,
\* with pushes and front/pop pairs interleaved
C7_Witness ==
    /\ handed = {}
    /\ nPushed > maxSize
    /\ maxSize > 1
    /\ numElements = 0
    /\ Len(delivered) = nPushed
    /\ cpc = "front"

\* C8: the element a pop removes is the element the preceding front returned,
\* and no frame is handed on twice.
C8_PopRemovesFronted ==
    [][/\ (cpc = "pop" /\ cpc' = "front" /\ ~empty) =>
             (message.kind = "ring" /\ message.val = buffer[readIndex])
       /\ NoDuplicates(delivered')]_vars

\* C10: once the producer has stopped, the loop eventually gets NULL from
\* front with ring and overflow area empty, every frame that was held when
\* the producer stopped having been returned exactly once.
C10_DrainsAfterBurst ==
    (nPushed = MaxPush) ~>
        (/\ cpc = "front" /\ message.kind = "null"
         /\ empty
         /\ overflow_index = NotAllocated
         /\ \A f \in held : Count(delivered, f) = 1)

(***************************************************************************)
(* SpecStmt: push (producer) and pop (consumer) interleaved statement by   *)
(* statement.  pop takes no lock, so the critical section push enters on   *)
(* ESP32 after its fullness test does not keep pop out.                    *)
(***************************************************************************)
\* bool wasFull = isFull ();
PushTest ==
    /\ ppc = "idle" /\ ~faulted /\ nPushed < MaxPush
    /\ wasFull' = isFull
    /\ ppc' = "overflow"
    /\ UNCHANGED <<ringVars, ovfVars, faulted, nPushed, ret, ghostVars,
                   consumerIdle, loopVars, qpc, wasEmpty>>
    /\ UNCHANGED extVars

\* if (wasFull && writeIndex == readIndex) pushInOverFlowBuffer ();
PushOverflow ==
    /\ ppc = "overflow"
    /\ PushOverflowStep(wasFull)
    /\ ppc' = "copy"
    /\ UNCHANGED <<ringVars, faulted, nPushed, ret, consumed, held,
                   consumerIdle, loopVars, wasFull, qpc, wasEmpty>>
    /\ UNCHANGED extVars

\* memcpy (&(buffer[writeIndex]), item, sizeof (Telement));
PushCopy ==
    /\ ppc = "copy"
    /\ buffer' = [buffer EXCEPT ![writeIndex] = nPushed + 1]
    /\ ppc' = "winc"
    /\ UNCHANGED <<maxSize, numElements, readIndex, writeIndex, ovfVars, faulted,
                   nPushed, ret, ghostVars, consumerIdle, loopVars, wasFull, qpc, wasEmpty>>
    /\ UNCHANGED extVars

\* writeIndex++;
PushWriteInc ==
    /\ ppc = "winc"
    /\ writeIndex' = writeIndex + 1
    /\ ppc' = "wwrap"
    /\ UNCHANGED <<maxSize, numElements, readIndex, buffer, ovfVars, faulted,
                   nPushed, ret, ghostVars, consumerIdle, loopVars, wasFull, qpc, wasEmpty>>
    /\ UNCHANGED extVars

\* if (writeIndex >= maxSize) writeIndex %= maxSize;
PushWriteWrap ==
    /\ ppc = "wwrap"
    /\ writeIndex' = Wrap(writeIndex)
    /\ ppc' = "count"
    /\ UNCHANGED <<maxSize, numElements, readIndex, buffer, ovfVars, faulted,
                   nPushed, ret, ghostVars, consumerIdle, loopVars, wasFull, qpc, wasEmpty>>
    /\ UNCHANGED extVars

\* if (wasFull) readIndex++; else numElements++;
PushCount ==
    /\ ppc = "count"
    /\ IF wasFull
       THEN /\ readIndex' = readIndex + 1
            /\ ppc' = "rwrap"
            /\ UNCHANGED numElements
       ELSE /\ numElements' = numElements + 1
            /\ ppc' = "return"
            /\ UNCHANGED readIndex
    /\ UNCHANGED <<maxSize, writeIndex, buffer, ovfVars, faulted,
                   nPushed, ret, ghostVars, consumerIdle, loopVars, wasFull, qpc, wasEmpty>>
    /\ UNCHANGED extVars

\* if (readIndex >= maxSize) readIndex %= maxSize;
PushReadWrap ==
    /\ ppc = "rwrap"
    /\ readIndex' = Wrap(readIndex)
    /\ ppc' = "return"
    /\ UNCHANGED <<maxSize, numElements, writeIndex, buffer, ovfVars, faulted,
                   nPushed, ret, ghostVars, consumerIdle, loopVars, wasFull, qpc, wasEmpty>>
    /\ UNCHANGED extVars

\* return !wasFull;
PushReturn ==
    /\ ppc = "return"
    /\ ret' = Ret("push", ~wasFull, "none", 0, nPushed + 1)
    /\ nPushed' = nPushed + 1
    /\ ppc' = "idle"
    /\ held' = RingSet \cup OverflowSet
    /\ UNCHANGED <<ringVars, ovfVars, faulted, handed, absorbed, discarded, consumed,
                   consumerIdle, loopVars, wasFull, qpc, wasEmpty>>
    /\ UNCHANGED extVars

\* bool wasEmpty = empty ();
PopTest ==
    /\ qpc = "idle" /\ ~faulted
    /\ wasEmpty' = empty
    /\ qpc' = IF empty THEN "return" ELSE "rinc"
    /\ consumerIdle' = FALSE
    /\ UNCHANGED <<ringVars, ovfVars, faulted, nPushed, ret, ghostVars,
                   loopVars, ppc, wasFull>>
    /\ UNCHANGED extVars

\* readIndex++;  (the element pop removes is the one readIndex designated)
PopReadInc ==
    /\ qpc = "rinc"
    /\ readIndex' = readIndex + 1
    /\ consumed' = consumed \cup {buffer[readIndex % maxSize]}
    /\ qpc' = "rwrap"
    /\ UNCHANGED <<maxSize, numElements, writeIndex, buffer, ovfVars, faulted,
                   nPushed, ret, handed, absorbed, discarded, held,
                   consumerIdle, loopVars, ppc, wasFull, wasEmpty>>
    /\ UNCHANGED extVars

\* if (readIndex >= maxSize) readIndex %= maxSize;
PopReadWrap ==
    /\ qpc = "rwrap"
    /\ readIndex' = Wrap(readIndex)
    /\ qpc' = "dec"
    /\ UNCHANGED <<maxSize, numElements, writeIndex, buffer, ovfVars, faulted,
                   nPushed, ret, ghostVars, consumerIdle, loopVars, ppc, wasFull, wasEmpty>>
    /\ UNCHANGED extVars

\* numElements--;
PopDec ==
    /\ qpc = "dec"
    /\ numElements' = numElements - 1
    /\ qpc' = "return"
    /\ UNCHANGED <<maxSize, readIndex, writeIndex, buffer, ovfVars, faulted,
                   nPushed, ret, ghostVars, consumerIdle, loopVars, ppc, wasFull, wasEmpty>>
    /\ UNCHANGED extVars

\* return !wasEmpty;
PopReturn ==
    /\ qpc = "return"
    /\ ret' = Ret("pop", ~wasEmpty, "none", 0, NoItem)
    /\ qpc' = "idle"
    /\ UNCHANGED <<ringVars, ovfVars, faulted, nPushed, ghostVars,
                   consumerIdle, loopVars, ppc, wasFull, wasEmpty>>
    /\ UNCHANGED extVars

NextStmt ==
    \/ PushTest \/ PushOverflow \/ PushCopy \/ PushWriteInc \/ PushWriteWrap
    \/ PushCount \/ PushReadWrap \/ PushReturn
    \/ PopTest \/ PopReadInc \/ PopReadWrap \/ PopDec \/ PopReturn

SpecStmt == Init /\ [][NextStmt]_vars

\* C9: whenever a push and a pop that overlapped have both completed,
\* writeIndex = (readIndex + numElements) mod maxSize and every pushed frame
\* is still in the ring, was handed to the overflow area, or was removed by a
\* pop: none is silently discarded.
C9_PushAtomic ==
    (ppc = "idle" /\ qpc = "idle") =>
        /\ writeIndex = (readIndex + numElements) % maxSize
        /\ \A f \in 1..nPushed : f \in RingSet \/ f \in handed \/ f \in consumed

(***************************************************************************)
(* EnigmaIOTjsonController: the queue of Home Assistant discovery calls    *)
(* (SpecHA) and the two send functions (SpecSend).                         *)
(*                                                                         *)
(* Discovery calls are identified by the order in which they are added:    *)
(* the k-th addHACall adds the call k, or an empty std::function.          *)
(* haSince is -1 before the first connectInform, 0 after a connectInform   *)
(* and 1 once a call was executed since; haMark is the time of the latest  *)
(* connectInform or execution.                                             *)
(***************************************************************************)
\* millis () advances
Tick ==
    /\ clock < MaxTime
    /\ clock' = clock + 1
    /\ UNCHANGED <<queueVars, tagVars, gwVars, vecVars, haVars, sendData, sleepy, haAdded,
                   haExecuted, haSince, haMark, sendRet>>

\* if (getSleepy ()) sendHAdelay = HA_FIRST_DISCOVERY_DELAY_SLEEPY;
ConnectDelay(slp, d) == IF slp THEN HA_FIRST_DISCOVERY_DELAY_SLEEPY ELSE d

\* sendStartAnouncement () is pure virtual and left to the derived class
connectInform ==
    /\ sendHAdelay' = ConnectDelay(sleepy, sendHAdelay)
    /\ doSendHAdiscovery' = TRUE
    /\ sendHAtime' = clock
    /\ haSince' = 0
    /\ haMark' = clock
    /\ UNCHANGED <<queueVars, tagVars, gwVars, vecVars, haCallQueue, sendData, sleepy, clock, haAdded,
                   haExecuted, sendRet>>

addHACall ==
    /\ haAdded < MaxCalls
    /\ \E HACall \in {haAdded + 1, NullCall} :
           haCallQueue' = Append(haCallQueue, HACall)
    /\ haAdded' = haAdded + 1
    /\ UNCHANGED <<queueVars, tagVars, gwVars, vecVars, doSendHAdiscovery, sendHAtime, sendHAdelay,
                   sendData, sleepy, clock, haExecuted, haSince, haMark,
                   sendRet>>

NextDelay(slp) ==
    IF slp THEN HA_NEXT_DISCOVERY_DELAY_SLEEPY ELSE HA_NEXT_DISCOVERY_DELAY

\* (HaDueAlways: the doSendHAdiscovery flag is not looked at)
HaDueAlways(do, now, t, d) == now - t > d
\* if (doSendHAdiscovery && millis () - sendHAtime > sendHAdelay)
HaDue(do, now, t, d) == do /\ now - t > d

\* (HaNextCallNewest: the call added last is taken)
HaNextCallNewest(q) == IF Len(q) > 0 THEN q[Len(q)] ELSE NullCall
\* hacall = 0; if (haCallQueue.size ()) hacall = haCallQueue.front ();
HaNextCall(q) == IF Len(q) > 0 THEN Head(q) ELSE NullCall

callHAdiscoveryCalls ==
    /\ IF HaDue(doSendHAdiscovery, clock, sendHAtime, sendHAdelay)
       THEN LET hacall == HaNextCall(haCallQueue) IN
            IF hacall # NullCall
            THEN /\ haExecuted' = Append(haExecuted, hacall)
                 /\ haCallQueue' = Tail(haCallQueue)
                 /\ sendHAtime' = clock
                 /\ sendHAdelay' = NextDelay(sleepy)
                 /\ haSince' = 1
                 /\ haMark' = clock
                 /\ UNCHANGED doSendHAdiscovery
            ELSE /\ doSendHAdiscovery' = FALSE
                 /\ UNCHANGED <<haCallQueue, sendHAtime, sendHAdelay,
                                haExecuted, haSince, haMark>>
       ELSE UNCHANGED <<haVars, haExecuted, haSince, haMark>>
    /\ UNCHANGED <<queueVars, tagVars, gwVars, vecVars, sendData, sleepy, clock, haAdded, sendRet>>

NextHA == Tick \/ connectInform \/ addHACall \/ callHAdiscoveryCalls

SpecHA == Init /\ [][NextHA]_vars

\* a discovery call is executed
HAExecStep == Len(haExecuted') = Len(haExecuted) + 1
\* the delay due before the next execution
DueDelay ==
    IF haSince = 0
    THEN IF sleepy THEN HA_FIRST_DISCOVERY_DELAY_SLEEPY
                   ELSE HA_FIRST_DISCOVERY_DELAY
    ELSE IF sleepy THEN HA_NEXT_DISCOVERY_DELAY_SLEEPY
                   ELSE HA_NEXT_DISCOVERY_DELAY

\* C11: a discovery call is executed only once more than the due delay has
\* elapsed: the first delay (of a sleepy or an awake node) since the latest
\* connectInform when no call was executed since it, the next delay since
\* the previous execution otherwise.
C11_Cadence ==
    [][HAExecStep => clock - haMark > DueDelay]_vars

(***************************************************************************)
(* SpecSend: the send functions.  The callback registered in sendData may  *)
(* fail (return false) on any invocation.                                  *)
(***************************************************************************)
sendDataCallback ==
    /\ \E cb \in BOOLEAN : sendData' = cb
    /\ UNCHANGED <<queueVars, tagVars, gwVars, vecVars, haVars, sleepy, clock, haAdded, haExecuted,
                   haSince, haMark, sendRet>>

\* bool result = false; if (sendData) result = sendData (...);
SendViaRetry(cb, outs) ==
    IF cb /\ outs[1] THEN [calls |-> 1, result |-> TRUE]
    ELSE IF cb THEN [calls |-> 2, result |-> outs[2]]
    ELSE [calls |-> 0, result |-> FALSE]
SendVia(cb, outs) ==
    IF cb THEN [calls |-> 1, result |-> outs[1]]
    ELSE [calls |-> 0, result |-> FALSE]

sendJson ==
    /\ \E outs \in BOOLEAN \X BOOLEAN :
           LET r == SendVia(sendData, outs) IN
           sendRet' = SendRet("sendJson", TRUE, 1, sendData, outs,
                              r.calls, r.result)
    /\ UNCHANGED <<queueVars, tagVars, gwVars, vecVars, haVars, sendData, sleepy, clock, haAdded,
                   haExecuted, haSince, haMark>>

sendHADiscovery ==
    /\ \E data \in BOOLEAN, len \in 0..1, outs \in BOOLEAN \X BOOLEAN :
           IF ~data \/ len = 0
           THEN sendRet' = SendRet("sendHADiscovery", data, len, sendData,
                                   outs, 0, FALSE)
           ELSE LET r == SendVia(sendData, outs) IN
                sendRet' = SendRet("sendHADiscovery", data, len, sendData,
                                   outs, r.calls, r.result)
    /\ UNCHANGED <<queueVars, tagVars, gwVars, vecVars, haVars, sendData, sleepy, clock, haAdded,
                   haExecuted, haSince, haMark>>

NextSend == sendDataCallback \/ sendJson \/ sendHADiscovery

SpecSend == Init /\ [][NextSend]_vars

\* C12: a call of sendJson or sendHADiscovery invokes the sendData callback
\* at most once and returns what that invocation returned; it returns false
\* without an invocation when no callback is registered, and so does
\* sendHADiscovery when data is NULL or len is 0.
C12_SendSurfaced ==
    sendRet.fn \in {"sendJson", "sendHADiscovery"} =>
        /\ sendRet.calls <= 1
        /\ sendRet.calls = 1 => sendRet.result = sendRet.outs[1]
        /\ sendRet.calls = 0 => sendRet.result = FALSE
        /\ ~sendRet.cb => sendRet.calls = 0
        /\ (sendRet.fn = "sendHADiscovery" /\ (~sendRet.data \/ sendRet.len = 0))
               => sendRet.calls = 0
        /\ (sendRet.cb /\ sendRet.data /\ sendRet.len > 0) => sendRet.calls = 1

\* a failed send of a discovery message: the callback ran once, answered
\* false, would have answered true to a retry, and false was returned
C12_Witness ==
    /\ sendRet.fn = "sendHADiscovery"
    /\ sendRet.cb /\ sendRet.data /\ sendRet.len > 0
    /\ sendRet.outs = <<FALSE, TRUE>>
    /\ sendRet.calls = 1
    /\ sendRet.result = FALSE

(***************************************************************************)
(* SpecVec: EnigmaIOTRingBufferVector<Telement>, the std::vector variant   *)
(* of the queue.  An element is identified by the push that stored it.     *)
(***************************************************************************)
vecSize == Len(vecBuffer)
vecIsFull == Len(vecBuffer) = VecRange
vecEmpty == Len(vecBuffer) = 0

\* //TODO Handle max size: the element is appended whatever the size, and
\* true is returned.  (The pointer stored is the address of the local
\* message, which is dead once push returns.)
vecPush ==
    /\ vecPushed < MaxVecPush
    /\ vecPushed' = vecPushed + 1
    /\ vecBuffer' = Append(vecBuffer, vecPushed + 1)
    /\ vecRet' = Ret("push", TRUE, "none", 0, vecPushed + 1)
    /\ UNCHANGED <<queueVars, tagVars, gwVars, ctlVars>>

vecPop ==
    /\ LET wasEmptyV == vecEmpty IN
       /\ vecBuffer' = IF ~wasEmptyV THEN Tail(vecBuffer) ELSE vecBuffer
       /\ vecRet' = Ret("pop", ~wasEmptyV, "none", 0, NoItem)
    /\ UNCHANGED <<queueVars, tagVars, gwVars, ctlVars, vecPushed>>

vecFront ==
    /\ vecRet' = IF ~vecEmpty
                 THEN Ret("front", FALSE, "vec", 0, Head(vecBuffer))
                 ELSE Ret("front", FALSE, "null", 0, NoItem)
    /\ UNCHANGED <<queueVars, tagVars, gwVars, ctlVars, vecBuffer, vecPushed>>

NextVec == vecPush \/ vecPop \/ vecFront

SpecVec == Init /\ [][NextVec]_vars

VecPushStep == vecPushed' = vecPushed + 1

\* C13: the vector queue never holds more than maxSize elements; a push on
\* a full queue deletes the oldest element and returns false; a push on a
\* queue that is not full keeps every element and returns true.
C13_VectorBounded ==
    [][/\ vecSize' <= VecRange
       /\ VecPushStep =>
              /\ vecRet'.ok = ~vecIsFull
              /\ vecBuffer' = Append(IF vecIsFull THEN Tail(vecBuffer)
                                                  ELSE vecBuffer,
                                     vecPushed + 1)]_vars

(***************************************************************************)
(* SpecGw: the gateway's session state machine, replay window, key expiry  *)
(* and node names, as the dispatcher applies them to one received frame    *)
(* at a time.  Frames are authentic: HMAC and decryption succeed.          *)
(***************************************************************************)
GwTick ==
    /\ gwNow < MaxGwTime
    /\ gwNow' = gwNow + 1
    /\ UNCHANGED <<queueVars, tagVars, ctlVars, vecVars, nodes, gwFrames, gwEvent>>

\* uint8_t key_id, uint16_t counters
NextKeyIdSame(k) == k
NextKeyId(k) == (k + 1) % 256
Diff16(a, b) == (a - b + 65536) % 65536
InWindowPlain(c, last) == c > last /\ c - last <= W
InWindow(c, last) == Diff16(c, last) \in 1..W
Lost(c, last) == Diff16(Diff16(c, last), 1)

HasSessionAlways(n) == TRUE
HasSession(n) == n.status = "Registered"
KeyExpiredNever(n, now) == FALSE
KeyExpired(n, now) == now - n.last_activity > MAX_KEY_VALIDITY
NameTakenNever(tbl, mac, nm) == FALSE
NameTaken(tbl, mac, nm) ==
    \E m \in MACs \ {mac} : HasSession(tbl[m]) /\ tbl[m].name = nm

\* a successful handshake: next key_id, counters reset
Handshake(n, now) ==
    NodeRec("Registered", NextKeyId(n.key_id), 0, now, n.name, 0)
\* the session is destroyed; the MAC keeps its key_id for the next epoch
Invalidate(n) ==
    NodeRec("Unregistered", n.key_id, n.last_accepted, n.last_activity,
            NoName, 0)

\* a valid CLIENT_HELLO
RxClientHello ==
    /\ gwFrames < MaxGwFrames
    /\ gwFrames' = gwFrames + 1
    /\ \E mac \in MACs :
           /\ nodes' = [nodes EXCEPT ![mac] = Handshake(nodes[mac], gwNow)]
           /\ gwEvent' = GwEvent("CLIENT_HELLO", mac, nodes'[mac].key_id, 0,
                                 NoName, "SERVER_HELLO", 0, FALSE, 0)
    /\ UNCHANGED <<queueVars, tagVars, ctlVars, vecVars, gwNow>>

\* the counters a frame may carry, relative to the last accepted one: a
\* replay, the next one, a gap, the edges of the window, an old one
CounterSteps == {0, 1, 4, W, W + 1, 65534}

\* an upstream data frame with key_id kid and counter c
ProcessData(mac, kid, c) ==
    LET n == nodes[mac] IN
    IF ~HasSession(n)
    THEN /\ nodes' = nodes
         /\ gwEvent' = GwEvent("DATA", mac, kid, c, NoName, "INVALIDATE_KEY",
                               "UNREGISTERED_NODE", FALSE, 0)
    ELSE IF kid # n.key_id
    THEN /\ nodes' = nodes
         /\ gwEvent' = GwEvent("DATA", mac, kid, c, NoName, "none", 0,
                               FALSE, 0)
    ELSE IF KeyExpired(n, gwNow)
    THEN /\ nodes' = [nodes EXCEPT ![mac] = Invalidate(n)]
         /\ gwEvent' = GwEvent("DATA", mac, kid, c, NoName, "INVALIDATE_KEY",
                               "KEY_EXPIRED", FALSE, 0)
    ELSE IF InWindow(c, n.last_accepted)
    THEN /\ nodes' = [nodes EXCEPT ![mac] =
                          NodeRec("Registered", n.key_id, c, gwNow, n.name, 0)]
         /\ gwEvent' = GwEvent("DATA", mac, kid, c, NoName, "none", 0, TRUE,
                               Lost(c, n.last_accepted))
    ELSE IF n.rejects + 1 >= MaxRejects
    THEN /\ nodes' = [nodes EXCEPT ![mac] = Invalidate(n)]
         /\ gwEvent' = GwEvent("DATA", mac, kid, c, NoName, "INVALIDATE_KEY",
                               "WRONG_DATA", FALSE, 0)
    ELSE /\ nodes' = [nodes EXCEPT ![mac].rejects = n.rejects + 1]
         /\ gwEvent' = GwEvent("DATA", mac, kid, c, NoName, "none", 0,
                               FALSE, 0)

RxData ==
    /\ gwFrames < MaxGwFrames
    /\ gwFrames' = gwFrames + 1
    /\ \E mac \in MACs, stale \in BOOLEAN, d \in CounterSteps :
           ProcessData(mac,
                       IF stale THEN (nodes[mac].key_id + 255) % 256
                                ELSE nodes[mac].key_id,
                       (nodes[mac].last_accepted + d) % 65536)
    /\ UNCHANGED <<queueVars, tagVars, ctlVars, vecVars, gwNow>>

\* a NODE_NAME_SET frame of the peer's current session
ProcessNodeNameSet(mac, nm) ==
    LET n == nodes[mac] IN
    IF ~HasSession(n)
    THEN /\ nodes' = nodes
         /\ gwEvent' = GwEvent("NODE_NAME_SET", mac, n.key_id, 0, nm,
                               "INVALIDATE_KEY", "UNREGISTERED_NODE", FALSE, 0)
    ELSE IF KeyExpired(n, gwNow)
    THEN /\ nodes' = [nodes EXCEPT ![mac] = Invalidate(n)]
         /\ gwEvent' = GwEvent("NODE_NAME_SET", mac, n.key_id, 0, nm,
                               "INVALIDATE_KEY", "KEY_EXPIRED", FALSE, 0)
    ELSE IF nm = NoName
    THEN /\ nodes' = nodes
         /\ gwEvent' = GwEvent("NODE_NAME_SET", mac, n.key_id, 0, nm,
                               "NODE_NAME_RESULT", EmptyNameCode, FALSE, 0)
    ELSE IF NameTaken(nodes, mac, nm)
    THEN /\ nodes' = nodes
         /\ gwEvent' = GwEvent("NODE_NAME_SET", mac, n.key_id, 0, nm,
                               "NODE_NAME_RESULT", NameTakenCode, FALSE, 0)
    ELSE /\ nodes' = [nodes EXCEPT ![mac].name = nm,
                                   ![mac].last_activity = gwNow]
         /\ gwEvent' = GwEvent("NODE_NAME_SET", mac, n.key_id, 0, nm,
                               "NODE_NAME_RESULT", NameOk, FALSE, 0)

RxNodeNameSet ==
    /\ gwFrames < MaxGwFrames
    /\ gwFrames' = gwFrames + 1
    /\ \E mac \in MACs, nm \in Names : ProcessNodeNameSet(mac, nm)
    /\ UNCHANGED <<queueVars, tagVars, ctlVars, vecVars, gwNow>>

NextGw == GwTick \/ RxClientHello \/ RxData \/ RxNodeNameSet

SpecGw == InitGw /\ [][NextGw]_vars

\* the dispatcher has processed a frame of the given type from mac
RxStep(type, mac) ==
    /\ gwFrames' = gwFrames + 1
    /\ gwEvent'.type = type
    /\ gwEvent'.mac = mac
\* the frame belongs to the session the gateway holds for mac, and that
\* session's key is still valid
OfSession(mac) ==
    /\ nodes[mac].status = "Registered"
    /\ gwEvent'.kid = nodes[mac].key_id
Unexpired(mac) == gwNow - nodes[mac].last_activity <= MAX_KEY_VALIDITY

\* C14: a data frame of a valid session with counter c is accepted iff
\* (c - last_accepted) mod 2^16 is in (0, W]; then the callback reports
\* lost = (c - last_accepted - 1) mod 2^16 and last_accepted becomes c;
\* otherwise no callback runs and last_accepted is unchanged.
C14_ReplayWindow ==
    [][\A m \in MACs :
           (RxStep("DATA", m) /\ OfSession(m) /\ Unexpired(m)) =>
               LET c == gwEvent'.ctr
                   last == nodes[m].last_accepted
                   d == (c - last) % 65536
               IN  IF 0 < d /\ d <= 256
                   THEN /\ gwEvent'.delivered
                        /\ gwEvent'.lost = (c - last - 1) % 65536
                        /\ nodes'[m].last_accepted = c
                   ELSE /\ ~gwEvent'.delivered
                        /\ nodes'[m].last_accepted = last]_vars

\* after ctr=1 and ctr=5 were accepted, ctr=3 was received and dropped
C14_Witness ==
    /\ gwEvent.type = "DATA"
    /\ gwEvent.ctr = 3
    /\ ~gwEvent.delivered
    /\ nodes[gwEvent.mac].status = "Registered"
    /\ nodes[gwEvent.mac].last_accepted = 5
    /\ nodes[gwEvent.mac].key_id = gwEvent.kid
    /\ nodes[gwEvent.mac].rejects = 1

\* C15: a data frame from a MAC without a Registered session changes no
\* record of the node table, runs no callback and is answered with
\* INVALIDATE_KEY(UNREGISTERED_NODE).
C15_StrangerRejected ==
    [][\A m \in MACs :
           (RxStep("DATA", m) /\ nodes[m].status # "Registered") =>
               /\ nodes' = nodes
               /\ ~gwEvent'.delivered
               /\ gwEvent'.reply = "INVALIDATE_KEY"
               /\ gwEvent'.code = "UNREGISTERED_NODE"]_vars

\* a MAC the gateway never heard of sent data and was turned away
C15_Witness ==
    /\ gwEvent.type = "DATA"
    /\ gwEvent.reply = "INVALIDATE_KEY"
    /\ gwEvent.code = "UNREGISTERED_NODE"
    /\ nodes[gwEvent.mac] = FreshNode

C17_KeyEpoch ==
    [][\A m \in MACs :
           /\ RxStep("CLIENT_HELLO", m) =>
                  /\ nodes'[m].status = "Registered"
                  /\ nodes'[m].key_id = (nodes[m].key_id + 1) % 256
                  /\ nodes'[m].last_accepted = 0
                  /\ nodes'[m].rejects = 0
           /\ (RxStep("DATA", m) /\ nodes[m].status = "Registered"
                   /\ gwEvent'.kid # nodes[m].key_id) =>
                  /\ nodes' = nodes
                  /\ ~gwEvent'.delivered
                  /\ gwEvent'.reply = "none"]_vars

\* the peer's 256th handshake wrapped key_id to 0, and a frame of the
\* previous epoch (key_id 255) was dropped
C17_Witness ==
    /\ gwEvent.type = "DATA"
    /\ gwEvent.kid = 255
    /\ gwEvent.reply = "none"
    /\ ~gwEvent.delivered
    /\ nodes[gwEvent.mac].status = "Registered"
    /\ nodes[gwEvent.mac].key_id = 0

\* C18: no two Registered peers hold the same non-empty name; a
\* NODE_NAME_SET of a valid session for a name another peer holds is
\* answered with NODE_NAME_RESULT(-1) and changes no record.
C18_NameUnique ==
    [][/\ \A m1, m2 \in MACs :
              (/\ m1 # m2
               /\ nodes'[m1].status = "Registered"
               /\ nodes'[m2].status = "Registered"
               /\ nodes'[m1].name # NoName) => nodes'[m1].name # nodes'[m2].name
       /\ \A m \in MACs :
              (/\ RxStep("NODE_NAME_SET", m)
               /\ nodes[m].status = "Registered"
               /\ Unexpired(m)
               /\ gwEvent'.name # NoName
               /\ \E o \in MACs \ {m} : nodes[o].name = gwEvent'.name) =>
                  /\ gwEvent'.reply = "NODE_NAME_RESULT"
                  /\ gwEvent'.code = -1
                  /\ nodes' = nodes]_vars

\* a peer named 2 asked for name 1, which the other peer holds, was
\* refused and is still named 2
C18_Witness ==
    /\ gwEvent.type = "NODE_NAME_SET"
    /\ gwEvent.reply = "NODE_NAME_RESULT"
    /\ gwEvent.code = -1
    /\ gwEvent.name = 1
    /\ nodes[gwEvent.mac].name = 2
    /\ \E o \in MACs \ {gwEvent.mac} :
           nodes[o].status = "Registered" /\ nodes[o].name = 1

(***************************************************************************)
(* Further properties of whole calls made in any order (Spec)              *)
(***************************************************************************)
\* C19: both indices stay inside the ring and writeIndex is readIndex plus
\* the number of elements, modulo maxSize; so on a full ring writeIndex
\* equals readIndex and the slot the next push writes holds the oldest
\* element.
C19_IndexInvariant ==
    /\ 0 <= readIndex /\ readIndex < maxSize
    /\ 0 <= writeIndex /\ writeIndex < maxSize
    /\ writeIndex = (readIndex + numElements) % maxSize
    /\ numElements = maxSize =>
           /\ writeIndex = readIndex
           /\ buffer[writeIndex] = RingSeq[1]

\* a push has overwritten the oldest element of a full ring whose indices
\* have moved on from slot 0, after elements were popped
C19_Witness ==
    /\ numElements = maxSize
    /\ nPushed > maxSize
    /\ readIndex > 0
    /\ writeIndex = readIndex
    /\ consumed # {}
    /\ ret.op = "push"
    /\ ~ret.ok

\* C20: a pointer front () takes from the overflow array designates one of
\* the slots 0..14 that holds an entry (a slot below overflow_index); with
\* the ring empty and overflow_index = 0, front () returns NULL and leaves
\* overflow_index within 0..16.
C20_OverflowFrontSafe ==
    [][FrontStep =>
           /\ ret'.kind \in {"ovf", "oob", "fault"} =>
                  /\ ret'.kind = "ovf"
                  /\ ret'.idx \in 0..(MAX_OVERFLOW_BUFFER_SIZE - 1)
                  /\ ret'.idx < OverflowCount(overflow_index)
                  /\ ret'.val \in absorbed
           /\ (empty /\ overflow_index = 0) =>
                  /\ ret'.kind = "null"
                  /\ overflow_index' \in 0..(MAX_OVERFLOW_BUFFER_SIZE + 1)]_vars

MaxOf(S) == CHOOSE x \in S : \A y \in S : y <= x

\* C22: front () takes from the overflow area only when the main ring is
\* empty, and what it returns then is the most recently displaced of the
\* frames the overflow area holds (victims are displaced oldest first, so
\* that is the latest frame held).
C22_OverflowLifo ==
    [][(FrontStep /\ ret'.kind \notin {"ring", "null"}) =>
           /\ empty
           /\ OverflowSet # {}
           /\ ret'.kind = "ovf"
           /\ ret'.val \in absorbed
           /\ ret'.val = MaxOf(OverflowSet)]_vars

(***************************************************************************)
(* SpecBurst: push, pop and front called in any order on a queue that has  *)
(* taken a burst: maxSize + 15 frames were pushed with the consumer idle,  *)
(* so the ring is full and the overflow array holds 14 victims (the first  *)
(* overflowing push allocated the array and stored nothing).  The frames   *)
(* of the burst are numbered downwards from 0, the latest being frame 0;   *)
(* the frames pushed from here on are 1, 2, ...                            *)
(***************************************************************************)
BurstLen == maxSize + MAX_OVERFLOW_BUFFER_SIZE

InitBurst ==
    /\ InitTag
    /\ InitController
    /\ sleepy = FALSE
    /\ InitVector
    /\ InitGateway
    /\ maxSize \in 1..MaxRange
    /\ numElements = maxSize
    /\ readIndex = BurstLen % maxSize
    /\ writeIndex = BurstLen % maxSize
    /\ buffer = [i \in 0..(maxSize - 1) |->
                     LET k == (i - readIndex + maxSize) % maxSize
                     IN  k + 1 - maxSize]
    /\ overflowBuffer = [j \in 0..(MAX_OVERFLOW_BUFFER_SIZE - 1) |->
                             IF j < MAX_OVERFLOW_BUFFER_SIZE - 1
                             THEN j + 2 - BurstLen ELSE NoItem]
    /\ overflow_index = MAX_OVERFLOW_BUFFER_SIZE - 1
    /\ deleteOverflow = FALSE
    /\ heap = "live"
    /\ faulted = FALSE
    /\ nPushed = 0
    /\ ret = Ret("push", FALSE, "none", 0, 0)
    /\ handed = {k - BurstLen : k \in 1..MAX_OVERFLOW_BUFFER_SIZE}
    /\ absorbed = {k - BurstLen : k \in 2..MAX_OVERFLOW_BUFFER_SIZE}
    /\ discarded = {}
    /\ consumed = {}
    /\ held = RingSet \cup OverflowSet
    /\ consumerIdle = TRUE
    /\ cpc = "front"
    /\ message = NoRet
    /\ delivered = <<>>
    /\ ppc = "idle"
    /\ wasFull = FALSE
    /\ qpc = "idle"
    /\ wasEmpty = FALSE

SpecBurst == InitBurst /\ [][Next]_vars

\* C23: a push on a full ring while the overflow array holds 15 entries
\* drops the victim: the overflow array and overflow_index stay as they
\* are, the victim is held nowhere any more, the new item becomes the
\* newest element of the ring, which stays full, and push returns false.
C23_DiscardWhenOverflowFull ==
    [][(PushStep /\ isFull /\ overflow_index = MAX_OVERFLOW_BUFFER_SIZE) =>
           /\ overflowBuffer' = overflowBuffer
           /\ overflow_index' = overflow_index
           /\ numElements' = maxSize
           /\ ~ret'.ok
           /\ \A i \in 1..(maxSize - 1) : RingSeq'[i] = RingSeq[i + 1]
           /\ RingSeq'[maxSize] = nPushed + 1
           /\ buffer[readIndex] \in discarded'
           /\ buffer[readIndex] \notin held']_vars

\* the second push after the burst found the overflow array full and
\* dropped its victim
C23_Witness ==
    /\ ret.op = "push"
    /\ ~ret.ok
    /\ numElements = maxSize
    /\ overflow_index = MAX_OVERFLOW_BUFFER_SIZE
    /\ Cardinality(discarded) = 1
    /\ nPushed = 2
    /\ consumerIdle

\* front () took its return value from the overflow array
FrontFromOverflow == FrontStep /\ ret'.kind \in {"ovf", "oob", "fault"}
\* push copied its victim into the overflow array
PushAbsorbs == PushStep /\ absorbed' # absorbed

\* C24: the overflow array is allocated exactly when overflow_index is not
\* 16 or deleteOverflow is set; a push that writes into it and a front ()
\* that points into it find it allocated and leave it allocated; it is
\* freed only while allocated, only with deleteOverflow set, and only by
\* front () or by a push on a full ring, so the pointer to the last
\* overflow entry is good until one of these is called.
C24_OverflowLifecycle ==
    [][/\ (heap' = "live") <=>
              (overflow_index' # MAX_OVERFLOW_BUFFER_SIZE + 1 \/ deleteOverflow')
       /\ (PushAbsorbs \/ FrontFromOverflow) => (heap = "live" /\ heap' = "live")
       /\ deleteOverflow => heap = "live"
       /\ (heap = "live" /\ heap' # "live") =>
              /\ deleteOverflow
              /\ FrontStep \/ (PushStep /\ isFull)
       /\ (deleteOverflow' /\ ~deleteOverflow) =>
              /\ FrontStep
              /\ ret'.kind = "ovf"
              /\ heap' = "live"]_vars

\* the calls waiting in the queue, empty std::function objects left out
HAWaiting(q) == {q[i] : i \in 1..Len(q)} \ {NullCall}

\* C25: the calls are executed in the order in which they were added, each
\* at most once, and not more than one in a step; the executed call is the
\* front of the queue, it is popped in the same step, and sendHAtime
\* becomes the current time.
C25_DiscoveryOrder ==
    [][/\ haExecuted' # haExecuted =>
              \E c \in 1..haAdded :
                  /\ haExecuted' = Append(haExecuted, c)
                  /\ haCallQueue # <<>>
                  /\ c = Head(haCallQueue)
                  /\ haCallQueue' = Tail(haCallQueue)
                  /\ sendHAtime' = clock
                  /\ \A i \in 1..Len(haExecuted) : haExecuted[i] < c
                  /\ \A w \in HAWaiting(haCallQueue') : c < w
       /\ Len(haCallQueue') < Len(haCallQueue) => HAExecStep]_vars

\* two calls were executed while a third one waits
C25_Witness ==
    /\ Len(haExecuted) = 2
    /\ HAWaiting(haCallQueue) # {}

\* C26: a call is executed only with doSendHAdiscovery set, which only
\* connectInform sets; callHAdiscoveryCalls changes nothing unless
\* doSendHAdiscovery is set and the delay has elapsed, and it clears
\* doSendHAdiscovery only on finding no call to execute.
C26_DiscoveryGated ==
    [][/\ HAExecStep => (doSendHAdiscovery /\ haSince >= 0)
       /\ (callHAdiscoveryCalls
               /\ ~(doSendHAdiscovery /\ clock - sendHAtime > sendHAdelay))
              => UNCHANGED vars
       /\ (HAExecStep \/ Len(haCallQueue') < Len(haCallQueue)
               \/ (doSendHAdiscovery /\ ~doSendHAdiscovery'))
              => (doSendHAdiscovery /\ clock - sendHAtime > sendHAdelay)
       /\ (doSendHAdiscovery /\ ~doSendHAdiscovery') =>
              /\ haCallQueue = <<>> \/ Head(haCallQueue) = NullCall
              /\ UNCHANGED <<haCallQueue, haExecuted, sendHAtime, sendHAdelay>>
       /\ (~doSendHAdiscovery /\ doSendHAdiscovery') =>
              /\ haSince' = 0
              /\ sendHAtime' = clock
              /\ UNCHANGED <<haCallQueue, haExecuted>>]_vars

\* after a connectInform the flag was cleared on an empty queue; a call
\* added since waits although the delay has elapsed
C26_Witness ==
    /\ ~doSendHAdiscovery
    /\ haSince >= 0
    /\ haCallQueue # <<>>
    /\ Head(haCallQueue) # NullCall
    /\ clock - sendHAtime > sendHAdelay

(***************************************************************************)
(* SpecTag: the classification of received frames.  A frame is its first   *)
(* byte together with the direction it travels in; manageMessage hands it  *)
(* to the processing method of the message type the byte stands for.       *)
(***************************************************************************)
\* enum gatewayMessageType_t
gatewayMessageType_t ==
    [SENSOR_DATA |-> 1, SENSOR_BRCAST_DATA |-> 129,
     UNENCRYPTED_NODE_DATA |-> 17, DOWNSTREAM_DATA_SET |-> 2,
     DOWNSTREAM_BRCAST_DATA_SET |-> 130, DOWNSTREAM_DATA_GET |-> 18,
     DOWNSTREAM_BRCAST_DATA_GET |-> 146, CONTROL_DATA |-> 3,
     DOWNSTREAM_CTRL_DATA |-> 4, DOWNSTREAM_BRCAST_CTRL_DATA |-> 132,
     HA_DISCOVERY_MESSAGE |-> 8, CLOCK_REQUEST |-> 5, CLOCK_RESPONSE |-> 6,
     NODE_NAME_SET |-> 7, NODE_NAME_RESULT |-> 23,
     BROADCAST_KEY_REQUEST |-> 8, BROADCAST_KEY_RESPONSE |-> 24,
     CLIENT_HELLO |-> 255, SERVER_HELLO |-> 254, INVALIDATE_KEY |-> 251]

MessageTypes == DOMAIN gatewayMessageType_t
TagValues == {gatewayMessageType_t[t] : t \in MessageTypes}
\* a first byte that is no value of the enum
UnknownTag == 0
Directions == {"data", "control"}

\* the message types a first byte stands for
TypesOf(tag) == {t \in MessageTypes : gatewayMessageType_t[t] = tag}

\* the type of a frame whose first byte stands for two types: HA discovery
\* travels in the data direction, the broadcast-key request in the control
\* direction
ByDirection(types, dir) ==
    IF dir = "data" /\ "HA_DISCOVERY_MESSAGE" \in types
    THEN "HA_DISCOVERY_MESSAGE"
    ELSE IF dir = "control" /\ "BROADCAST_KEY_REQUEST" \in types
         THEN "BROADCAST_KEY_REQUEST"
         ELSE CHOOSE t \in types : TRUE

\* the processing method a frame is handed to; a frame with an unknown
\* first byte is dropped
Classify(tag, dir) ==
    LET types == TypesOf(tag) IN
    IF types = {} THEN "drop"
    ELSE IF Cardinality(types) = 1 THEN CHOOSE t \in types : TRUE
         ELSE ByDirection(types, dir)

manageMessage ==
    /\ \E tag \in TagValues \cup {UnknownTag}, dir \in Directions :
           rxFrame' = [tag |-> tag, method |-> Classify(tag, dir)]
    /\ rxPrev' = rxFrame
    /\ UNCHANGED <<queueVars, ctlVars, vecVars, gwVars>>

NextTag == manageMessage

SpecTag == Init /\ [][NextTag]_vars

\* C27: the first byte of a classified frame stands for exactly one message
\* type, and two frames with the same first byte were handed to the same
\* processing method.
C27_TagClassifies ==
    /\ rxFrame.tag \in TagValues => Cardinality(TypesOf(rxFrame.tag)) = 1
    /\ (rxFrame # NoFrame /\ rxPrev # NoFrame /\ rxFrame.tag = rxPrev.tag)
           => rxFrame.method = rxPrev.method

====
